---- MODULE Spec2Model ----
(***************************************************************************)
(* qcml_logging: the orchestration layer (log_setup) over the Python       *)
(* logging runtime.  The state is the process-wide logging state the code  *)
(* mutates: the root logger's handlers, level and filters, the level of a  *)
(* named library logger, and sys.excepthook.  Operations are log_setup     *)
(* and the logging of one record through the root or a named logger.       *)
(*                                                                         *)
(* Strings are modelled as sequences of words, so that "keyword in msg"    *)
(* and "text in output" are contiguous-subsequence tests.                  *)
(***************************************************************************)
EXTENDS Integers, Sequences, FiniteSets, TLC

(* ---------------- bounds of the model ---------------- *)
\* number of log_setup calls in one behaviour
MaxSetups == 2
\* nesting depth of emit -> logging.error -> emit at which the interpreter
\* gives up with RecursionError
RecursionLimit == 2
\* logging stops once this much was written through one file sink
MaxWritten == 10

(* ---------------- severities (logging module) ---------------- *)
NOTSET == 0
DEBUG == 10
INFO == 20
WARNING == 30
ERROR == 40
CRITICAL == 50

Severities == {DEBUG, INFO, WARNING, ERROR, CRITICAL}

\* logging.getLevelName for the five severities
LevelName(n) ==
    CASE n = DEBUG -> "DEBUG"
      [] n = INFO -> "INFO"
      [] n = WARNING -> "WARNING"
      [] n = ERROR -> "ERROR"
      [] n = CRITICAL -> "CRITICAL"
      [] OTHER -> "NOTSET"

\* getattr(logging, name.upper(), logging.ERROR): names that are not a
\* severity of the logging module fall back to ERROR
LevelOf(name) ==
    CASE name = "DEBUG" -> DEBUG
      [] name = "INFO" -> INFO
      [] name = "WARNING" -> WARNING
      [] name = "ERROR" -> ERROR
      [] name = "CRITICAL" -> CRITICAL
      [] OTHER -> ERROR

(* ---------------- strings ---------------- *)
\* Python's "k in m" on strings
IsSubstring(k, m) ==
    \E i \in 1..(Len(m) + 1) :
        /\ i + Len(k) - 1 <= Len(m)
        /\ SubSeq(m, i, i + Len(k) - 1) = k

None == "None"

(* ---------------- formatters.py ---------------- *)
Lit(s) == [t |-> "lit", v |-> s]
Fld(s) == [t |-> "fld", v |-> s]

\* DEFAULT_JSON_FORMAT: the fixed schema time/name/level/message/filename/line
DEFAULT_JSON_FORMAT ==
    << Lit("time:"), Fld("asctime"), Lit("name:"), Fld("name"),
       Lit("level:"), Fld("levelname"), Lit("message:"), Fld("message"),
       Lit("filename:"), Fld("filename"), Lit("line:"), Fld("lineno") >>

\* logging.Formatter(None) uses the backbone default "%(message)s"; a format
\* that was not given (None) is the empty sequence
DefaultFormat == << Fld("message") >>
\* logging.BASIC_FORMAT, the format of the bootstrap handler
BASIC_FORMAT == << Fld("levelname"), Lit(":"), Fld("name"), Lit(":"), Fld("message") >>

FmtOrDefault(log_format) == IF log_format = <<>> THEN DefaultFormat ELSE log_format

setup_formatter_ColorFirst(use_json, use_color, log_format) ==
    IF use_color THEN [kind |-> "color", fmt |-> FmtOrDefault(log_format)]
    ELSE IF use_json THEN [kind |-> "json", fmt |-> DEFAULT_JSON_FORMAT]
    ELSE [kind |-> "plain", fmt |-> FmtOrDefault(log_format)]

setup_formatter(use_json, use_color, log_format) ==
    IF use_json THEN [kind |-> "json", fmt |-> DEFAULT_JSON_FORMAT]
    ELSE IF use_color THEN [kind |-> "color", fmt |-> FmtOrDefault(log_format)]
    ELSE [kind |-> "plain", fmt |-> FmtOrDefault(log_format)]

\* ColoredFormatter.COLORS / RESET
RESET == "RESET"
COLORS(levelname) ==
    CASE levelname = <<"DEBUG">> -> "GREEN"
      [] levelname = <<"INFO">> -> "BLUE"
      [] levelname = <<"WARNING">> -> "YELLOW"
      [] levelname = <<"ERROR">> -> "RED"
      [] levelname = <<"CRITICAL">> -> "MAGENTA"
      [] OTHER -> RESET

\* ColoredFormatter.format line 61-62: the record's levelname is replaced
\* by its coloured form (the record is shared by all handlers)
Colorize(rec) ==
    [rec EXCEPT !.levelname = <<COLORS(rec.levelname)>> \o rec.levelname \o <<RESET>>]

BuiltinFields == {"asctime", "name", "levelname", "message", "filename", "lineno"}

\* value of one %(field)s of the format for a record
FieldValue(rec, f) ==
    CASE f = "message" -> rec.msg
      [] f = "levelname" -> rec.levelname
      [] f = "name" -> <<rec.name>>
      [] f = "asctime" -> <<"<asctime>">>
      [] f = "filename" -> <<"<filename>">>
      [] f = "lineno" -> <<"<lineno>">>
      [] OTHER -> <<rec.extra[f]>>

\* a field the record does not carry makes %-formatting raise KeyError
Formattable(fmt, rec) ==
    \A i \in 1..Len(fmt) :
        fmt[i].t = "fld" =>
            \/ fmt[i].v \in BuiltinFields
            \/ (fmt[i].v \in DOMAIN rec.extra /\ rec.extra[fmt[i].v] # None)

RECURSIVE Render(_, _)
Render(fmt, rec) ==
    IF fmt = <<>> THEN <<>>
    ELSE (IF Head(fmt).t = "lit" THEN <<Head(fmt).v>> ELSE FieldValue(rec, Head(fmt).v))
         \o Render(Tail(fmt), rec)

\* Formatter.format / ColoredFormatter.format: the record as the next
\* handler sees it
FormatRecord(formatter, rec) == IF formatter.kind = "color" THEN Colorize(rec) ELSE rec
FormatText(formatter, rec) == Render(formatter.fmt, FormatRecord(formatter, rec))

(* ---------------- records, filters, handlers ---------------- *)
CtxKeys == {"user_id"}

\* Logger.makeRecord: the record handed to filters and handlers
MakeRecord(name, levelno, msg) ==
    [name |-> name, levelno |-> levelno, levelname |-> <<LevelName(levelno)>>,
     msg |-> msg, extra |-> [k \in CtxKeys |-> None]]

\* setup_logging_filters.filter_keywords
filter_keywords(keyword_filters, rec) ==
    \E i \in 1..Len(keyword_filters) : IsSubstring(keyword_filters[i], rec.msg)

\* ContextFilter.filter: setattr(record, key, value) for each pair; keeps
RECURSIVE ContextFilter_filter(_, _)
ContextFilter_filter(context_info, rec) ==
    IF context_info = <<>> THEN rec
    ELSE ContextFilter_filter(Tail(context_info),
            [rec EXCEPT !.extra[Head(context_info)[1]] = Head(context_info)[2]])

KeywordFilter(kws, gen) == [kind |-> "keyword", keywords |-> kws, info |-> <<>>, gen |-> gen]
ContextFilter(info, gen) == [kind |-> "context", keywords |-> <<>>, info |-> info, gen |-> gen]

\* logging.Filterer.filter: filters in order, the first refusal drops the
\* record
RECURSIVE ApplyFilters(_, _)
ApplyFilters(fs, rec) ==
    IF fs = <<>> THEN [keep |-> TRUE, rec |-> rec]
    ELSE IF Head(fs).kind = "keyword"
         THEN IF filter_keywords(Head(fs).keywords, rec)
              THEN ApplyFilters(Tail(fs), rec)
              ELSE [keep |-> FALSE, rec |-> rec]
         ELSE ApplyFilters(Tail(fs), ContextFilter_filter(Head(fs).info, rec))

Handler(kind, level, formatter, gen) ==
    [kind |-> kind, level |-> level, formatter |-> formatter, gen |-> gen]

\* what one sink wrote for one record
Emission(h, rec, text) ==
    [sink |-> h.kind, gen |-> h.gen, levelno |-> rec.levelno, name |-> rec.name,
     msg |-> rec.msg, text |-> text]

NoOut == [out |-> <<>>, exc |-> "none"]

\* the message SlackHandler.emit logs when the send fails
SlackSendFailedMsg == <<"Failed", "to", "send", "log", "to", "Slack">>

\* the backbone's handler of last resort (stderr, WARNING) and the handler
\* logging.basicConfig() installs
LastResort == Handler("lastResort", WARNING, [kind |-> "plain", fmt |-> DefaultFormat], 0)
BootstrapHandler == Handler("stream", NOTSET, [kind |-> "plain", fmt |-> BASIC_FORMAT], 0)

RECURSIVE CallHandlers(_, _, _, _, _)
RECURSIVE LoggerLog(_, _, _, _, _, _)

\* logging.StreamHandler.emit: format and write; a formatting error is
\* swallowed by handleError and the record is lost
StreamHandler_emit(h, rec) ==
    [out |-> IF Formattable(h.formatter.fmt, rec)
             THEN << Emission(h, rec, FormatText(h.formatter, rec)) >>
             ELSE <<>>,
     exc |-> "none",
     rec |-> FormatRecord(h.formatter, rec)]

\* RotatingFileHandler.emit: shouldRollover formats the record once to
\* measure it (maxBytes > 0 after validation), then the stream emit formats
\* it again
RotatingFileHandler_emit(h, rec) ==
    IF Formattable(h.formatter.fmt, rec)
    THEN StreamHandler_emit(h, FormatRecord(h.formatter, rec))
    ELSE [out |-> <<>>, exc |-> "none", rec |-> FormatRecord(h.formatter, rec)]

\* the result r of a nested logging call, as the result of the emit that
\* made it
EmitResult(r, rec2) == [out |-> r.out, exc |-> r.exc, rec |-> rec2]

\* SlackHandler.emit after self.format(record): the send; only SlackApiError
\* is caught, and then logging.error(...) logs through the root logger
SlackHandler_send(G, h, rec, rec2, net, depth) ==
    CASE net = "ok" ->
           [out |-> << Emission(h, rec, Render(h.formatter.fmt, rec2)) >>,
            exc |-> "none", rec |-> rec2]
      [] net = "SlackApiError" ->
           IF depth >= RecursionLimit
           THEN [out |-> <<>>, exc |-> "RecursionError", rec |-> rec2]
           ELSE EmitResult(LoggerLog(G, "root", ERROR, SlackSendFailedMsg, net, depth + 1), rec2)
      [] OTHER -> [out |-> <<>>, exc |-> net, rec |-> rec2]

\* SlackHandler.emit: the record is formatted outside the try, so a
\* formatting error is raised to the caller
SlackHandler_emit(G, h, rec, net, depth) ==
    IF ~Formattable(h.formatter.fmt, rec)
    THEN [out |-> <<>>, exc |-> "KeyError", rec |-> FormatRecord(h.formatter, rec)]
    ELSE SlackHandler_send(G, h, rec, FormatRecord(h.formatter, rec), net, depth)

\* Handler.handle: the emit of the handler's class
Handler_handle(G, h, rec, net, depth) ==
    CASE h.kind = "slack" -> SlackHandler_emit(G, h, rec, net, depth)
      [] h.kind = "file" -> RotatingFileHandler_emit(h, rec)
      [] OTHER -> StreamHandler_emit(h, rec)

\* output `out` followed by the result r of what ran next
After(out, r) == [out |-> out \o r.out, exc |-> r.exc]

\* the handlers after index i, given the result r of handler i: an
\* exception escaping a handler ends the loop
CallHandlersRest(r, G, i, net, depth) ==
    IF r.exc # "none" THEN [out |-> r.out, exc |-> r.exc]
    ELSE After(r.out, CallHandlers(G, r.rec, i + 1, net, depth))

\* one round of the loop: a handler emits when its level admits the record
CallHandlersAt(h, G, rec, i, net, depth) ==
    IF rec.levelno < h.level THEN CallHandlers(G, rec, i + 1, net, depth)
    ELSE CallHandlersRest(Handler_handle(G, h, rec, net, depth), G, i, net, depth)

\* Logger.callHandlers over the root logger's handlers from index i
CallHandlers(G, rec, i, net, depth) ==
    IF i > Len(G.handlers) THEN NoOut
    ELSE CallHandlersAt(G.handlers[i], G, rec, i, net, depth)

\* Logger.getEffectiveLevel: a named logger without a level of its own
\* takes the root's
EffectiveLevel(G, name) ==
    IF name # "root" /\ G.libLevel # NOTSET THEN G.libLevel ELSE G.level

\* Logger.handle for a record that passed (f.keep) the logger's filters:
\* callHandlers, or the handler of last resort when there is none
Logger_handle(f, G, net, depth) ==
    IF ~f.keep THEN NoOut
    ELSE IF Len(G.handlers) = 0
         THEN IF f.rec.levelno >= LastResort.level
              THEN StreamHandler_emit(LastResort, f.rec)
              ELSE NoOut
         ELSE CallHandlers(G, f.rec, 1, net, depth)

\* the logger's own filters: the root logger's filters see only records
\* logged through the root logger itself; records of a named logger
\* propagate to the root's handlers unfiltered
Logger_filter(G, rec0) ==
    IF rec0.name = "root" THEN ApplyFilters(G.filters, rec0)
    ELSE [keep |-> TRUE, rec |-> rec0]

\* Logger.log -> isEnabledFor -> handle -> callHandlers
LoggerLog(G, name, levelno, msg, net, depth) ==
    IF levelno < EffectiveLevel(G, name) THEN NoOut
    ELSE Logger_handle(Logger_filter(G, MakeRecord(name, levelno, msg)), G, net, depth)

\* logging.basicConfig() as called by the module-level functions: a
\* bootstrap handler when the root logger has none
basicConfig(G) ==
    IF Len(G.handlers) = 0 THEN [G EXCEPT !.handlers = << BootstrapHandler >>] ELSE G

\* global state G with the result r of a logging call made in it
WithState(G, r) == [G |-> G, out |-> r.out, exc |-> r.exc]

\* logging.warning / logging.error (module level): basicConfig() when the
\* root logger has no handler, then root.log
ModuleLogIn(G1, levelno, msg, net, depth) ==
    WithState(G1, LoggerLog(G1, "root", levelno, msg, net, depth))

ModuleLog(G, levelno, msg, net, depth) ==
    ModuleLogIn(basicConfig(G), levelno, msg, net, depth)

(* ---------------- handlers.py ---------------- *)
\* the log files the calls can name; the files of one log are the sequence
\* of the sizes of <name>, <name>.1, <name>.2, ..., empty when none exists
LogFiles == {"app.log", "default.log"}
EmptyDir == [f \in LogFiles |-> <<>>]

\* the line a sink wrote for a record, with its newline
LineSize(e) == Len(e.text) + 1

\* the line shouldRollover measures: the first of the two renderings of the
\* record, which the colour renderer makes shorter than the second by the
\* two codes around each severity label
RolloverLineSize(h, e) ==
    IF h.formatter.kind = "color"
    THEN LineSize(e) - 2 * Cardinality({ i \in 1..Len(h.formatter.fmt) :
                                          h.formatter.fmt[i] = Fld("levelname") })
    ELSE LineSize(e)

\* RotatingFileHandler.shouldRollover (maxBytes is positive)
shouldRollover(fs, h, e) == fs[1] + RolloverLineSize(h, e) >= h.maxBytes

doRollover_KeepAll(fs, backupCount) ==
    IF backupCount = 0 THEN fs ELSE <<0>> \o fs

\* RotatingFileHandler.doRollover: with backupCount 0 the file is closed and
\* reopened for appending; otherwise <name>.i becomes <name>.(i+1) for i
\* below backupCount, replacing what was there, <name> becomes <name>.1 and
\* a new <name> is opened
doRollover(fs, backupCount) ==
    IF backupCount = 0 THEN fs
    ELSE [ j \in 1..(IF Len(fs) <= backupCount THEN Len(fs) + 1 ELSE Len(fs)) |->
             IF j = 1 THEN 0 ELSE IF j <= backupCount + 1 THEN fs[j - 1] ELSE fs[j] ]

\* what RotatingFileHandler.emit leaves of the files fs, rolled or not
Appended(gs, e) == [gs EXCEPT ![1] = @ + LineSize(e)]

\* RotatingFileHandler.emit on the files of its log, for a record it wrote
RotatingFileHandler_write(fs, h, e) ==
    Appended(IF shouldRollover(fs, h, e) THEN doRollover(fs, h.backupCount) ELSE fs, e)

\* the attached file sinks, and the one built by call gen
FileHandlers(hs) == SelectSeq(hs, LAMBDA h : h.kind = "file")
FileHandlerOf(hs, gen) == SelectSeq(hs, LAMBDA h : h.kind = "file" /\ h.gen = gen)[1]

\* the log directory after the sinks hs wrote the output out of an operation
RECURSIVE WriteAll(_, _, _)
WriteAll(d, hs, out) ==
    IF out = <<>> THEN d
    ELSE WriteAll(IF Head(out).sink = "file"
                  THEN [d EXCEPT ![FileHandlerOf(hs, Head(out).gen).baseFilename] =
                          RotatingFileHandler_write(@, FileHandlerOf(hs, Head(out).gen),
                                                    Head(out))]
                  ELSE d,
                  hs, Tail(out))

\* FileHandler.__init__ opens the file for appending, which creates it
OpenAll(d, fhs) ==
    IF fhs = <<>> THEN d
    ELSE [d EXCEPT ![fhs[1].baseFilename] = IF @ = <<>> THEN <<0>> ELSE @]

\* the size of the lines the file sink of call gen wrote in out
RECURSIVE WrittenBy(_, _)
WrittenBy(out, gen) ==
    IF out = <<>> THEN 0
    ELSE (IF Head(out).sink = "file" /\ Head(out).gen = gen THEN LineSize(Head(out)) ELSE 0)
         + WrittenBy(Tail(out), gen)

\* the size written through the attached file sink since it was built, after
\* an operation with output out; gen is the call that just ran, 0 if none
WrittenAfter(w, fhs, out, gen) ==
    IF fhs = <<>> THEN 0
    ELSE (IF fhs[1].gen = gen THEN 0 ELSE w) + WrittenBy(out, fhs[1].gen)

\* RotatingFileHandler(os.path.join(logs_path, log_filename), maxBytes=...,
\* backupCount=...) with its level and formatter set
RotatingFileHandler(log_filename, max_bytes, backup_count, level, formatter, gen) ==
    [kind |-> "file", level |-> level, formatter |-> formatter, gen |-> gen,
     baseFilename |-> log_filename, maxBytes |-> max_bytes, backupCount |-> backup_count]

setup_handlers_ElseIf(output, log_filename, max_bytes, backup_count, level, formatter, gen) ==
    IF output \in {"terminal", "both"}
    THEN << Handler("stream", level, formatter, gen) >>
    ELSE IF output \in {"file", "both"}
         THEN << RotatingFileHandler(log_filename, max_bytes, backup_count,
                                     level, formatter, gen) >>
         ELSE <<>>

\* setup_handlers: console sink for terminal/both, then rotating file sink
\* for file/both, both at the one level passed in
setup_handlers(output, log_filename, max_bytes, backup_count, level, formatter, gen) ==
    (IF output \in {"terminal", "both"}
     THEN << Handler("stream", level, formatter, gen) >> ELSE <<>>)
    \o (IF output \in {"file", "both"}
        THEN << RotatingFileHandler(log_filename, max_bytes, backup_count,
                                    level, formatter, gen) >>
        ELSE <<>>)

\* the messages logged while configuring
NoFilenameMsg == <<"No", "log", "filename", "provided">>
SlackAuthFailedMsg == <<"Failed", "to", "authenticate", "Slack">>
SlackSetupFailedMsg == <<"Slack", "setup", "failed">>
SlackNotInstalledMsg == <<"Slack", "SDK", "is", "not", "installed">>
HiddenMsg == <<"logs", "are", "set", "to", "ERROR", "level">>
SetUpMsg == <<"Logging", "is", "set", "up">>

\* setup_slack_handler's except SlackApiError: the error was logged (r) and
\* the exception is raised again
AuthFailed(r) ==
    [G |-> r.G, out |-> r.out, exc |-> IF r.exc # "none" THEN r.exc ELSE "SlackApiError"]

\* setup_slack_handler: ValueError for credentials that are empty or not of
\* length 2; auth_test, whose SlackApiError is logged and re-raised and
\* whose other failures propagate as they are
setup_slack_handler(G, slack_credentials, auth, net) ==
    IF Len(slack_credentials.val) # 2
    THEN [G |-> G, out |-> <<>>, exc |-> "ValueError"]
    ELSE CASE auth = "ok" -> [G |-> G, out |-> <<>>, exc |-> "none"]
           [] auth = "SlackApiError" ->
                AuthFailed(ModuleLog(G, ERROR, SlackAuthFailedMsg, net, 0))
           [] OTHER -> [G |-> G, out |-> <<>>, exc |-> auth]

(* ---------------- logging_setup.py ---------------- *)
\* setup_logging_filters: the keyword filter, then the context filter, are
\* appended to the logger's filters
setup_logging_filters(filters, keyword_filters, context_info, gen) ==
    filters
    \o (IF keyword_filters # <<>> THEN << KeywordFilter(keyword_filters, gen) >> ELSE <<>>)
    \o (IF context_info # <<>> THEN << ContextFilter(context_info, gen) >> ELSE <<>>)

\* setup_async_logging: the exception types an uncaught exception can have
ExcTypes == {"ValueError", "KeyboardInterrupt", "KeyboardInterruptSubclass"}
\* issubclass(exc_type, KeyboardInterrupt)
IsInterrupt(exc_type) == exc_type \in {"KeyboardInterrupt", "KeyboardInterruptSubclass"}
UncaughtMsg == <<"Uncaught", "exception">>

\* sys.__excepthook__: the traceback goes to stderr, nothing is logged
default_excepthook == [default |-> TRUE, logged |-> <<>>, out |-> <<>>, exc |-> "none"]

\* the hook after logger.critical(...) returned r
Critical(r) ==
    [default |-> FALSE,
     logged |-> << [name |-> "root", levelno |-> CRITICAL, msg |-> UncaughtMsg] >>,
     out |-> r.out, exc |-> r.exc]

handle_exception_NoInterruptCheck(G, exc_type, net) ==
    Critical(LoggerLog(G, "root", CRITICAL, UncaughtMsg, net, 0))

\* setup_async_logging.handle_exception
handle_exception(G, exc_type, net) ==
    IF IsInterrupt(exc_type) THEN default_excepthook
    ELSE Critical(LoggerLog(G, "root", CRITICAL, UncaughtMsg, net, 0))

\* sys.excepthook(exc_type, ...): the default hook until a log_setup call
\* with asynchronous=True replaced it
excepthook_call(G, hook, exc_type, net) ==
    IF hook = 0 THEN default_excepthook ELSE handle_exception(G, exc_type, net)

\* the validation of log_setup, in the order of the code
BadOutput(cfg) == cfg.output \notin {"terminal", "file", "both"}
BadSlack(cfg) == cfg.slack_notify /\ ~cfg.slack_credentials.given
BadMaxBytes(cfg) == ~cfg.max_bytes.isint \/ cfg.max_bytes.val <= 0
BadBackupCount(cfg) == ~cfg.backup_count.isint \/ cfg.backup_count.val < 0
Invalid(cfg) == BadOutput(cfg) \/ BadSlack(cfg) \/ BadMaxBytes(cfg) \/ BadBackupCount(cfg)

\* log_setup line 128: the file name used when none was given
FilenameOrDefault(log_filename) ==
    IF log_filename = None THEN "default.log" ELSE log_filename

\* "terminal_level or level"
OrLevel(x, level) == IF x = None THEN level ELSE x

Outcome(G, hook, out, exc) == [G |-> G, hook |-> hook, out |-> out, exc |-> exc]

\* the end of log_setup with the result r of its last logging call
Closing(G, hook, out, r) == Outcome(G, hook, out \o r.out, r.exc)

\* log_setup lines 176-183: filters, the exception hook, the closing record
log_setup_filters(G2, hook, out, cfg, env, gen) ==
    Closing(G2, IF cfg.asynchronous THEN gen ELSE hook, out,
            LoggerLog(G2, "root", INFO, SetUpMsg, env.net, 0))

\* log_setup after the hide_logs loop, whose logging calls gave r1
log_setup_hidden(r1, G1, hook, out, cfg, env, gen) ==
    IF r1.exc # "none" THEN Closing(G1, hook, out, r1)
    ELSE log_setup_filters(
            [G1 EXCEPT !.filters =
                setup_logging_filters(G1.filters, cfg.keyword_filters,
                    IF cfg.add_context THEN cfg.context_info ELSE <<>>, gen)],
            hook, out \o r1.out, cfg, env, gen)

\* the last part of log_setup (lines 170-183): hide_logs, filters, the
\* exception hook and the closing record
log_setup_finish(G, hook, out, cfg, env, gen) ==
    IF cfg.hide_logs # <<>>
    THEN log_setup_hidden(
            LoggerLog([G EXCEPT !.libLevel = ERROR], "root", INFO, HiddenMsg, env.net, 0),
            [G EXCEPT !.libLevel = ERROR], hook, out, cfg, env, gen)
    ELSE log_setup_hidden(NoOut, G, hook, out, cfg, env, gen)

\* log_setup after a logging call that gave r: its exception ends the
\* call, otherwise the last part follows
log_setup_logged(r, G, hook, out, cfg, env, gen) ==
    IF r.exc # "none" THEN Closing(G, hook, out, r)
    ELSE log_setup_finish(G, hook, out \o r.out, cfg, env, gen)

\* log_setup lines 161-166 with the result s of setup_slack_handler
log_setup_slack_built(s, hook, out, cfg, env, formatter, gen) ==
    CASE s.exc = "none" ->
           log_setup_finish(
               [s.G EXCEPT !.handlers = @ \o << Handler("slack", INFO, formatter, gen) >>],
               hook, out \o s.out, cfg, env, gen)
      [] s.exc \in {"ValueError", "SlackApiError"} ->
           log_setup_logged(LoggerLog(s.G, "root", ERROR, SlackSetupFailedMsg, env.net, 0),
                            s.G, hook, out \o s.out, cfg, env, gen)
      [] OTHER -> Outcome(s.G, hook, out \o s.out, s.exc)

\* the Slack part of log_setup (lines 159-168)
log_setup_slack(G, hook, out, cfg, env, formatter, gen) ==
    IF cfg.slack_notify /\ env.slack_available
    THEN log_setup_slack_built(
            setup_slack_handler(G, cfg.slack_credentials, env.auth, env.net),
            hook, out, cfg, env, formatter, gen)
    ELSE IF cfg.slack_notify
    THEN log_setup_logged(LoggerLog(G, "root", WARNING, SlackNotInstalledMsg, env.net, 0),
                          G, hook, out, cfg, env, gen)
    ELSE log_setup_finish(G, hook, out, cfg, env, gen)

\* log_setup lines 148-157 without the reset of line 146
log_setup_sinks_NoClear(G1, hook, out, cfg, env, formatter, gen) ==
    IF cfg.output \in {"file", "both"} /\ env.fs # "ok"
    THEN Outcome(G1, hook, out, "OSError")
    ELSE log_setup_slack(
            [G1 EXCEPT !.handlers =
                @ \o setup_handlers(cfg.output, FilenameOrDefault(cfg.log_filename),
                        cfg.max_bytes.val, cfg.backup_count.val,
                        LevelOf(OrLevel(cfg.terminal_level, cfg.level)), formatter, gen)],
            hook, out, cfg, env, formatter, gen)

\* log_setup lines 146-157: the reset of the handlers, then the sinks built
\* by setup_handlers (which cannot create the log directory when fs fails).
\* The file sink gets the level computed from terminal_level.
log_setup_sinks(G1, hook, out, cfg, env, formatter, gen) ==
    IF cfg.output \in {"file", "both"} /\ env.fs # "ok"
    THEN Outcome([G1 EXCEPT !.handlers = <<>>], hook, out, "OSError")
    ELSE log_setup_slack(
            [G1 EXCEPT !.handlers =
                setup_handlers(cfg.output, FilenameOrDefault(cfg.log_filename),
                    cfg.max_bytes.val, cfg.backup_count.val,
                    LevelOf(OrLevel(cfg.terminal_level, cfg.level)), formatter, gen)],
            hook, out, cfg, env, formatter, gen)

\* log_setup lines 137-157: levels, reset of the handlers, formatter, sinks
log_setup_attach(G, hook, out, cfg, env, gen) ==
    log_setup_sinks([G EXCEPT !.level = LevelOf(cfg.level)], hook, out, cfg, env,
                    setup_formatter(cfg.use_json, cfg.use_color, cfg.log_format), gen)

\* log_setup lines 131-135 and on, after the warning about a missing file
\* name gave w
log_setup_checked(w, hook, cfg, env, gen) ==
    IF w.exc # "none" THEN Outcome(w.G, hook, w.out, w.exc)
    ELSE IF BadMaxBytes(cfg) \/ BadBackupCount(cfg)
         THEN Outcome(w.G, hook, w.out, "ValueError")
         ELSE log_setup_attach(w.G, hook, w.out, cfg, env, gen)

\* log_setup: the safety checks (lines 120-135), with the warning about a
\* missing file name logged between them, then the rest
log_setup(G, hook, cfg, env, gen) ==
    IF BadOutput(cfg) \/ BadSlack(cfg) THEN Outcome(G, hook, <<>>, "ValueError")
    ELSE IF cfg.output \in {"file", "both"} /\ cfg.log_filename = None
         THEN log_setup_checked(ModuleLog(G, WARNING, NoFilenameMsg, env.net, 0),
                                hook, cfg, env, gen)
         ELSE log_setup_checked([G |-> G, out |-> <<>>, exc |-> "none"], hook, cfg, env, gen)

(* ---------------- inputs ---------------- *)
\* defaults of log_setup's parameters
DEFAULT_MAX_BYTES == 1048576
DEFAULT_BACKUP_COUNT == 3

IntArg(n) == [isint |-> TRUE, val |-> n]
\* an argument that is not an int (1.5, "50")
NonIntArg == [isint |-> FALSE, val |-> 1]

NoCredentials == [given |-> FALSE, val |-> <<>>]
Credentials(v) == [given |-> TRUE, val |-> v]

Default ==
    [level |-> "ERROR", hide_logs |-> <<>>, output |-> "both", log_filename |-> None,
     max_bytes |-> IntArg(DEFAULT_MAX_BYTES), backup_count |-> IntArg(DEFAULT_BACKUP_COUNT),
     terminal_level |-> None, file_level |-> None, log_format |-> <<>>,
     use_json |-> FALSE, keyword_filters |-> <<>>, use_color |-> TRUE,
     asynchronous |-> TRUE, add_context |-> FALSE, context_info |-> <<>>,
     slack_notify |-> FALSE, slack_credentials |-> NoCredentials]

\* "%(levelname)s %(message)s" and "%(message)s user_id=%(user_id)s"
LevelMsgFormat == << Fld("levelname"), Fld("message") >>
CtxFormat == << Fld("message"), Lit("user_id="), Fld("user_id") >>

UserContext == << <<"user_id", "12345">> >>
\* the text "key=" that precedes a value in a rendered key=value pair
KeyEq(k) == CASE k = "user_id" -> "user_id=" [] OTHER -> "="
ExampleKeywords == << <<"example">> >>

\* configurations for the sink set: every formatter choice for every output,
\* and every output with and without a file name and notifications, and one
\* call that fails validation
CfgSinks ==
    { [Default EXCEPT !.output = o, !.log_filename = "app.log", !.use_json = uj,
                      !.use_color = uc, !.log_format = lf] :
        o \in {"terminal", "file", "both"}, uj \in BOOLEAN, uc \in BOOLEAN,
        lf \in {<<>>, LevelMsgFormat} }
    \cup
    { [Default EXCEPT !.output = o, !.log_filename = f, !.slack_notify = sn,
                      !.slack_credentials = Credentials(<<"token", "#chan">>),
                      !.level = "INFO"] :
        o \in {"terminal", "file", "both"}, f \in {None, "app.log"}, sn \in BOOLEAN }
    \cup { [Default EXCEPT !.max_bytes = IntArg(0)] }

\* configurations that vary the validated options
CfgValidation ==
    { [Default EXCEPT !.output = o, !.log_filename = f, !.max_bytes = mb,
                      !.backup_count = bc, !.slack_notify = sn, !.asynchronous = a] :
        o \in {"terminal", "both", "syslog"}, f \in {None, "app.log"},
        mb \in {IntArg(DEFAULT_MAX_BYTES), IntArg(0), NonIntArg},
        bc \in {IntArg(DEFAULT_BACKUP_COUNT), IntArg(0 - 1)},
        sn \in BOOLEAN, a \in BOOLEAN }

\* configurations that vary the thresholds
CfgLevels ==
    { [Default EXCEPT !.level = l, !.terminal_level = tl, !.file_level = fl,
                      !.output = o, !.log_filename = "app.log"] :
        l \in {"DEBUG", "WARNING", "VERBOSE"}, tl \in {None, "ERROR"},
        fl \in {None, "DEBUG"}, o \in {"terminal", "file", "both"} }

\* configurations that vary keyword filtering, context and rendering
CfgFilters ==
    { [Default EXCEPT !.level = l, !.output = "terminal", !.hide_logs = hl,
                      !.use_color = FALSE, !.log_format = lf,
                      !.add_context = ac, !.context_info = ci, !.keyword_filters = kf] :
        l \in {"INFO", "WARNING"}, hl \in {<<>>, <<"lib">>},
        lf \in {<<>>, CtxFormat},
        ac \in BOOLEAN, ci \in {<<>>, UserContext}, kf \in {<<>>, ExampleKeywords} }

\* configurations that request notifications
CfgSlack ==
    { [Default EXCEPT !.level = l, !.output = "terminal", !.slack_notify = sn,
                      !.slack_credentials = sc, !.keyword_filters = kf] :
        l \in {"INFO", "CRITICAL"}, sn \in BOOLEAN,
        sc \in {Credentials(<<>>), Credentials(<<"token", "#chan">>),
                Credentials(<<"token", "#chan", "extra">>)},
        kf \in {<<>>, ExampleKeywords} }

\* configurations that select the colour renderer, with a format that shows
\* the severity label, for one or several sinks
CfgColor ==
    { [Default EXCEPT !.level = "INFO", !.output = o, !.log_filename = "app.log",
                      !.use_color = TRUE, !.log_format = LevelMsgFormat,
                      !.slack_notify = sn,
                      !.slack_credentials = Credentials(<<"token", "#chan">>)] :
        o \in {"terminal", "both"}, sn \in BOOLEAN }

\* configurations that vary the exception hook and what its record meets
CfgHook ==
    { [Default EXCEPT !.level = l, !.output = "terminal", !.asynchronous = a,
                      !.keyword_filters = kf, !.slack_notify = sn,
                      !.slack_credentials = Credentials(<<"token", "#chan">>)] :
        l \in {"INFO", "VERBOSE"}, a \in BOOLEAN, kf \in {<<>>, ExampleKeywords},
        sn \in BOOLEAN }

\* configurations that make the file sink rotate: sizes are counted in the
\* words of a line, so a limit of a few words stands for the 50 bytes of
\* the rotation test
CfgRotation ==
    { [Default EXCEPT !.level = "INFO", !.output = "file", !.log_filename = "app.log",
                      !.use_color = FALSE, !.max_bytes = IntArg(mb),
                      !.backup_count = IntArg(bc)] : mb \in {4, 7}, bc \in {0, 1, 2} }

\* configurations of the main specification: hide_logs, the exception hook,
\* the level and the output
Cfgs ==
    { [Default EXCEPT !.level = l, !.output = o, !.log_filename = "app.log",
                      !.hide_logs = hl, !.asynchronous = a] :
        l \in {"DEBUG", "INFO", "WARNING", "ERROR", "CRITICAL"},
        o \in {"terminal", "both"}, hl \in {<<>>, <<"lib">>}, a \in BOOLEAN }

SendOutcomes == {"ok", "SlackApiError", "OtherError"}
Envs == [slack_available : BOOLEAN, auth : SendOutcomes, fs : {"ok", "fail"}, net : SendOutcomes]

Messages == { <<"no", "match", "here">>, <<"an", "example">> }
LoggerNames == {"root", "lib"}

(* ---------------- state ---------------- *)
VARIABLES
    handlers,         \* logging.root.handlers
    level,            \* logging.root.level
    filters,          \* logging.root.filters
    libLevel,         \* logging.getLogger("lib").level
    excepthook,       \* sys.excepthook: 0 the default, n the hook of the n-th call
    slack_available,  \* whether slack_sdk could be imported
    nSetups,          \* number of log_setup calls so far
    lastOp,           \* "init", "log_setup", "log" or "uncaught"
    cfg,              \* arguments of the most recent log_setup call
    env,              \* what the environment did during that call
    setupExc,         \* how that call ended: "none" or the exception raised
    rec,              \* the record of the last "log" operation
    uncaught,         \* what sys.excepthook did with the last uncaught exception
    exc,              \* the exception the last operation raised to its caller
    emitted,          \* what the sinks wrote during the last operation
    disk,             \* the log directory: the sizes of the files of each log
    written           \* size written through the attached file sink since it was built

vars == << handlers, level, filters, libLevel, excepthook, slack_available, nSetups,
           lastOp, cfg, env, setupExc, rec, uncaught, exc, emitted, disk, written >>

Root == [handlers |-> handlers, level |-> level, filters |-> filters, libLevel |-> libLevel]

HasSlack(hs) == \E i \in 1..Len(hs) : hs[i].kind = "slack"

NoEnv == [slack_available |-> FALSE, auth |-> "ok", fs |-> "ok", net |-> "ok"]
NoRec == [name |-> "root", levelno |-> NOTSET, msg |-> <<>>, net |-> "ok"]
NoUncaught == [type |-> "none", hook |-> 0, default |-> FALSE, logged |-> <<>>]

Init ==
    /\ handlers = <<>>
    /\ level = WARNING
    /\ filters = <<>>
    /\ libLevel = NOTSET
    /\ excepthook = 0
    /\ slack_available \in BOOLEAN
    /\ nSetups = 0
    /\ lastOp = "init"
    /\ cfg = Default
    /\ env = NoEnv
    /\ setupExc = "never"
    /\ rec = NoRec
    /\ uncaught = NoUncaught
    /\ exc = "none"
    /\ emitted = <<>>
    /\ disk = EmptyDir
    /\ written = 0

\* the parts of the environment a call can observe; the others are fixed
EnvFor(c, e) ==
    /\ e.slack_available = slack_available
    /\ (e.auth # "ok" => c.slack_notify /\ slack_available /\ Len(c.slack_credentials.val) = 2)
    /\ (e.fs # "ok" => c.output \in {"file", "both"})
    /\ (e.net # "ok" => HasSlack(handlers) \/ (c.slack_notify /\ slack_available /\ e.auth = "ok"))

\* the state after a log_setup call with outcome r
SetupResult(r) ==
    /\ handlers' = r.G.handlers
    /\ level' = r.G.level
    /\ filters' = r.G.filters
    /\ libLevel' = r.G.libLevel
    /\ excepthook' = r.hook
    /\ setupExc' = r.exc
    /\ exc' = r.exc
    /\ emitted' = r.out
    /\ disk' = WriteAll(OpenAll(disk, FileHandlers(r.G.handlers)),
                        handlers \o r.G.handlers, r.out)
    /\ written' = WrittenAfter(written, FileHandlers(r.G.handlers), r.out, nSetups + 1)

\* one call of log_setup with arguments from C
LogSetupIn(C) ==
    /\ nSetups < MaxSetups
    /\ \E c \in C, e \in Envs :
        /\ EnvFor(c, e)
        /\ SetupResult(log_setup(Root, excepthook, c, e, nSetups + 1))
        /\ cfg' = c
        /\ env' = e
    /\ nSetups' = nSetups + 1
    /\ lastOp' = "log_setup"
    /\ rec' = NoRec
    /\ uncaught' = NoUncaught
    /\ UNCHANGED slack_available

LogSetup == LogSetupIn(Cfgs)
SetupSinks == LogSetupIn(CfgSinks)
SetupValidation == LogSetupIn(CfgValidation)
SetupLevels == LogSetupIn(CfgLevels)
SetupFilters == LogSetupIn(CfgFilters)
SetupSlack == LogSetupIn(CfgSlack)
SetupColor == LogSetupIn(CfgColor)
SetupHook == LogSetupIn(CfgHook)
SetupRotation == LogSetupIn(CfgRotation)

\* what the caller of a logging call with result r observes
LogResult(r) ==
    /\ exc' = r.exc
    /\ emitted' = r.out
    /\ disk' = WriteAll(disk, handlers, r.out)
    /\ written' = WrittenAfter(written, FileHandlers(handlers), r.out, 0)

\* the application logs one record through the root or a named logger
LogRecord ==
    /\ written < MaxWritten
    /\ \E n \in LoggerNames, s \in Severities, m \in Messages, net \in SendOutcomes :
        /\ (net # "ok" => HasSlack(handlers))
        /\ LogResult(LoggerLog(Root, n, s, m, net, 0))
        /\ rec' = [name |-> n, levelno |-> s, msg |-> m, net |-> net]
    /\ lastOp' = "log"
    /\ uncaught' = NoUncaught
    /\ UNCHANGED << handlers, level, filters, libLevel, excepthook, slack_available,
                    nSetups, cfg, env, setupExc >>

\* what is left of an uncaught exception of type t after the hook returned r
HookResult(t, r) ==
    /\ uncaught' = [type |-> t, hook |-> excepthook, default |-> r.default,
                    logged |-> r.logged]
    /\ exc' = r.exc
    /\ emitted' = r.out
    /\ disk' = WriteAll(disk, handlers, r.out)
    /\ written' = WrittenAfter(written, FileHandlers(handlers), r.out, 0)

\* an exception nothing catches reaches sys.excepthook
UncaughtException ==
    /\ written < MaxWritten
    /\ \E t \in ExcTypes, net \in SendOutcomes :
        /\ (net # "ok" => HasSlack(handlers) /\ excepthook # 0 /\ ~IsInterrupt(t))
        /\ HookResult(t, excepthook_call(Root, excepthook, t, net))
        /\ rec' = [NoRec EXCEPT !.net = net]
    /\ lastOp' = "uncaught"
    /\ UNCHANGED << handlers, level, filters, libLevel, excepthook, slack_available,
                    nSetups, cfg, env, setupExc >>

Next == LogSetup \/ LogRecord \/ UncaughtException
Spec == Init /\ [][Next]_vars

\* configuration only: the sink set and the formatter
NextSetup == SetupSinks
SpecSetup == Init /\ [][NextSetup]_vars

\* configuration only: the validated options
NextValidation == SetupValidation
SpecValidation == Init /\ [][NextValidation]_vars

NextLevels == SetupLevels \/ LogRecord
SpecLevels == Init /\ [][NextLevels]_vars

NextFilters == SetupFilters \/ LogRecord
SpecFilters == Init /\ [][NextFilters]_vars

NextSlack == SetupSlack \/ LogRecord
SpecSlack == Init /\ [][NextSlack]_vars

NextHook == SetupHook \/ UncaughtException
SpecHook == Init /\ [][NextHook]_vars

NextRotation == SetupRotation \/ LogRecord
SpecRotation == Init /\ [][NextRotation]_vars

NextColor == SetupColor \/ LogRecord
SpecColor == Init /\ [][NextColor]_vars

(* ---------------- properties ---------------- *)
Kinds(hs) == [i \in 1..Len(hs) |-> hs[i].kind]
IsSink(e) == e.sink \in {"stream", "file"}

\* the notification sink was requested and could be built
SlackBuilt == /\ cfg.slack_notify /\ env.slack_available
              /\ Len(cfg.slack_credentials.val) = 2 /\ env.auth = "ok"

\* C1: a log_setup call with an invalid configuration fails with a
\* configuration error and leaves the root logger's handlers, level and
\* filters and the exception hook exactly as they were.
C1_InvalidLeavesGlobalState ==
    [][ (nSetups' = nSetups + 1 /\ Invalid(cfg'))
            => /\ setupExc' = "ValueError"
               /\ handlers' = handlers
               /\ level' = level
               /\ filters' = filters
               /\ excepthook' = excepthook ]_vars

\* C2: with the notification sink attached, a failed send of any kind is not
\* raised to the code that logged the record, and the terminal/file sinks
\* emit what they emit when the send succeeds.
C2_SendFailureIsolated ==
    (lastOp = "log" /\ HasSlack(handlers) /\ rec.net # "ok")
        => /\ exc = "none"
           /\ SelectSeq(LoggerLog(Root, rec.name, rec.levelno, rec.msg, "ok", 0).out, IsSink)
                = SelectSeq(emitted, LAMBDA e : IsSink(e) /\ e.msg = rec.msg)

\* C3: after a successful log_setup the root logger's sinks are exactly
\* those built by that call: none from an earlier call, none from the
\* bootstrap, and as many as one call with this configuration attaches.
C3_SinksAreLatestCalls ==
    setupExc = "none"
        => /\ \A i \in 1..Len(handlers) : handlers[i].gen = nSetups
           /\ Len(handlers) = (IF cfg.output = "both" THEN 2 ELSE 1)
                              + (IF SlackBuilt THEN 1 ELSE 0)

C3_Witness ==
    /\ nSetups = 2 /\ setupExc = "none" /\ cfg.output = "both"
    /\ Len(handlers) = 2 /\ handlers[1].gen = 2

\* C4: with notifications off, a successful log_setup attaches exactly a
\* console sink for terminal, a rotating file sink for file, and one of each
\* for both.
C4_SinksMatchOutput ==
    (setupExc = "none" /\ ~cfg.slack_notify)
        => Kinds(handlers) = CASE cfg.output = "terminal" -> <<"stream">>
                               [] cfg.output = "file" -> <<"file">>
                               [] OTHER -> <<"stream", "file">>

C4_Witness ==
    /\ setupExc = "none" /\ ~cfg.slack_notify /\ cfg.output = "both"
    /\ Kinds(handlers) = <<"stream", "file">>

\* C5: after a successful log_setup the console sink's threshold is
\* terminal_level if given, else level, and the file sink's threshold is
\* file_level if given, else level.
C5_PerSinkThresholds ==
    setupExc = "none"
        => \A i \in 1..Len(handlers) :
              /\ handlers[i].kind = "stream"
                    => handlers[i].level = LevelOf(OrLevel(cfg.terminal_level, cfg.level))
              /\ handlers[i].kind = "file"
                    => handlers[i].level = LevelOf(OrLevel(cfg.file_level, cfg.level))

\* C6: a valid configuration that requests notifications always completes:
\* without the dependency, or when building the sink fails for any reason,
\* no notification sink is attached and the terminal/file sinks are.
C6_SlackSetupDegrades ==
    (nSetups > 0 /\ ~Invalid(cfg) /\ cfg.slack_notify /\ ~SlackBuilt)
        => /\ setupExc = "none"
           /\ ~HasSlack(handlers)
           /\ Len(handlers) > 0

\* C7: after log_setup with level L, no per-sink levels and no keyword
\* filters, a record below L is written by no sink and a record at or above
\* L is written by every attached terminal/file sink.  (Stated for records
\* logged through the root logger under the default format, so that neither
\* hide_logs nor a format naming a missing field is what decides it.)
C7_ThresholdEnforced ==
    (/\ lastOp = "log" /\ setupExc = "none" /\ rec.name = "root"
     /\ cfg.terminal_level = None /\ cfg.file_level = None
     /\ cfg.keyword_filters = <<>> /\ cfg.log_format = <<>>)
        => /\ rec.levelno < LevelOf(cfg.level) => emitted = <<>>
           /\ rec.levelno >= LevelOf(cfg.level)
                => \A i \in 1..Len(handlers) :
                      handlers[i].kind \in {"stream", "file"}
                        => \E j \in 1..Len(emitted) :
                              /\ emitted[j].sink = handlers[i].kind
                              /\ emitted[j].msg = rec.msg

\* C8: after log_setup with keyword filters, every record a sink writes
\* contains a keyword, whichever logger it was logged through, and a root
\* record that contains one and meets the threshold is written.
C8_KeywordFilterOnAllSinks ==
    (lastOp = "log" /\ setupExc = "none" /\ cfg.keyword_filters # <<>>)
        => /\ \A j \in 1..Len(emitted) : filter_keywords(cfg.keyword_filters, emitted[j])
           /\ (/\ rec.name = "root" /\ rec.levelno >= LevelOf(cfg.level)
               /\ cfg.log_format = <<>>
               /\ filter_keywords(cfg.keyword_filters, rec))
                => emitted # <<>>

\* C9: after log_setup with add_context and a context map, every record a
\* sink writes has each key=value pair of the map in its rendered text.
C9_ContextInEveryRecord ==
    (lastOp = "log" /\ setupExc = "none" /\ cfg.add_context /\ cfg.context_info # <<>>)
        => \A j \in 1..Len(emitted) : \A k \in 1..Len(cfg.context_info) :
              IsSubstring(<< KeyEq(cfg.context_info[k][1]), cfg.context_info[k][2] >>,
                          emitted[j].text)

\* C10: the sinks a call attaches carry the JSON renderer whenever use_json
\* is set, whatever use_color and log_format are; otherwise the colour
\* renderer when use_color is set; otherwise the plain one.
C10_FormatterPrecedence ==
    \A i \in 1..Len(handlers) :
        (handlers[i].gen = nSetups /\ nSetups > 0)
            => /\ handlers[i].formatter.kind =
                    (IF cfg.use_json THEN "json" ELSE IF cfg.use_color THEN "color" ELSE "plain")
               /\ cfg.use_json => handlers[i].formatter.fmt = DEFAULT_JSON_FORMAT
               /\ ~cfg.use_json => handlers[i].formatter.fmt = FmtOrDefault(cfg.log_format)

C10_Witness ==
    /\ nSetups > 0 /\ cfg.use_json /\ cfg.use_color /\ cfg.log_format # <<>>
    /\ Len(handlers) > 0 /\ handlers[1].gen = nSetups
    /\ handlers[1].formatter.kind = "json"

\* C11: a successful log_setup with asynchronous=True leaves its own hook
\* installed, and whenever a hook of log_setup is installed, an uncaught
\* exception is handled by it: one that is not an interrupt is logged through
\* the root logger as exactly one CRITICAL record and is not handed to the
\* default hook; a KeyboardInterrupt or a subclass of it is handed to the
\* default hook, and nothing is logged or written for it.
C11_UncaughtRoutedByLatestHook ==
    /\ (setupExc = "none" /\ cfg.asynchronous) => excepthook = nSetups
    /\ (lastOp = "uncaught" /\ excepthook # 0)
          => /\ uncaught.hook = excepthook
             /\ IsInterrupt(uncaught.type)
                  => uncaught.default /\ uncaught.logged = <<>> /\ emitted = <<>>
             /\ ~IsInterrupt(uncaught.type)
                  => /\ ~uncaught.default
                     /\ uncaught.logged = << [name |-> "root", levelno |-> CRITICAL,
                                              msg |-> UncaughtMsg] >>

C11_Witness ==
    /\ lastOp = "uncaught" /\ nSetups = 2 /\ setupExc = "none" /\ cfg.asynchronous
    /\ uncaught.hook = 2 /\ uncaught.type = "ValueError"
    /\ \E j \in 1..Len(emitted) : emitted[j].levelno = CRITICAL /\ emitted[j].gen = 2

\* the files of the log that the most recent call named
LogOf == disk[FilenameOrDefault(cfg.log_filename)]

C13_NoEmitFailureChain ==
    (lastOp = "log" /\ HasSlack(handlers)) => exc # "RecursionError"

\* C14: with the colour renderer selected, whatever each sink writes for a
\* record carries the severity label as the colour code of the record's
\* severity, the plain severity name and the reset code, however many sinks
\* rendered the record before: the text is the format applied to the record
\* coloured once.
C14_ColorLabelExact ==
    (lastOp = "log" /\ setupExc = "none" /\ cfg.use_color /\ ~cfg.use_json)
        => \A j \in 1..Len(emitted) :
              emitted[j].text =
                  Render(FmtOrDefault(cfg.log_format),
                         Colorize(MakeRecord(emitted[j].name, emitted[j].levelno,
                                             emitted[j].msg)))

\* C15: after a successful log_setup the root logger's filters are exactly
\* the keyword filter and the context filter the call asked for, and none
\* from an earlier call.
C15_FiltersAreLatestCalls ==
    setupExc = "none"
        => filters = setup_logging_filters(<<>>, cfg.keyword_filters,
                         IF cfg.add_context THEN cfg.context_info ELSE <<>>, nSetups)

====
